---- MODULE Spec2Model ----
(***************************************************************************)
(* Model of the processing pipeline of ai_powerful_vector.                 *)
(*                                                                         *)
(* Spec     : the run state machine of ProcessingService                   *)
(*            (services/processing_service.py) driven by the HTTP          *)
(*            endpoints and background tasks of main.py.  One asyncio      *)
(*            event loop: an action is the code that runs between two      *)
(*            suspension points (await on the lock, on the pause event,    *)
(*            on asyncio.gather).                                          *)
(* StopSpec : Spec with the history of the start requests that were       *)
(*            pending when Stop was accepted.                              *)
(* FairSpec : Spec plus the fairness the event loop gives to ready tasks.  *)
(* AttendedSpec: FairSpec plus a Resume or Stop that eventually follows a  *)
(*            closed pause gate.                                           *)
(* FileSpec : the per-file workflow _process_single_file against the       *)
(*            vector store.                                                *)
(* SyncSpec : DropboxService.get_incremental_changes / _do_full_resync     *)
(*            against a changing remote store and the local inventory.     *)
(* StitchSpec: ReplicateService._combine_frame_captions on the captions of *)
(*            a video's frames.                                            *)
(* CrashSpec: SyncSpec plus a process that dies before the cursor is       *)
(*            saved, and the wipe of the inventory.                        *)
(* CacheSpec: the inventory operations of LocalCacheService on their own.  *)
(* CallSpec : the same operations with the value each hands to its caller. *)
(* E2ESpec  : sync, then runs of the entry points over the inventory and   *)
(*            the vector store, batch by batch.                            *)
(* BatchSpec: the same runs, recording what each file of a batch did.     *)
(***************************************************************************)
EXTENDS Integers, Sequences, FiniteSets, TLC

VARIABLES
    \* ---- ProcessingService.current_status (models.ProcessingStatus)
    status, files_processed, files_total, errors, start_time, end_time,
    \* ---- ProcessingService pause / stop machinery
    is_paused, pause_event, stop_requested,
    \* ---- asyncio.Lock processing_lock: holder and FIFO of waiters
    lockHolder, lockQueue,
    \* ---- one coroutine per start attempt
    pc, kind, idx, total,
    \* ---- history variables (not program state)
    lastExit, pause_pending, before_stop,
    \* ---- per-file workflow (FileSpec)
    SKIP_DUPLICATE_FILES, TRACK_CONTENT_HASH, dropbox_file, content_hash, weaviate, last,
    \* ---- the frame captions of the last analysed video and the description
    \*      made of them (StitchSpec)
    video,
    \* ---- the remote store and the change entries it has for the persisted
    \*      cursor (SyncSpec)
    remote, delta, changes,
    \* ---- DropboxService.cursor_file and the rows of LocalCacheService
    cursor_file, cache,
    \* ---- history variables of the sync model (not program state)
    sync, lastStore, returned,
    \* ---- the vector store by path, and the list a run works through
    \*      (E2ESpec)
    objects, e2e,
    \* ---- history of the batches (BatchSpec; not program state)
    hist

runVars  == <<status, files_processed, files_total, errors, start_time, end_time,
              is_paused, pause_event, stop_requested, lockHolder, lockQueue,
              pc, kind, idx, total, lastExit, pause_pending, before_stop>>
fileVars == <<SKIP_DUPLICATE_FILES, TRACK_CONTENT_HASH, dropbox_file, content_hash, weaviate, last,
              video>>
syncVars == <<remote, delta, changes, cursor_file, cache, sync, lastStore,
              returned>>
e2eVars  == <<objects, e2e, hist>>
vars     == <<runVars, fileVars, syncVars, e2eVars>>

\* ------------------------------------------------------------------ bounds
\* number of start attempts (coroutines) in one behaviour
MaxTasks == 2
\* largest listing a run is given
MaxFiles == 3
\* config.BATCH_SIZE is read from the environment (default 25); 2 makes a
\* listing of MaxFiles files span several batches.
BATCH_SIZE == 2

Tasks == 1..MaxTasks
NoTask == 0

\* the five start entry points of ProcessingService
Kinds == {"smart", "all", "new", "images", "videos"}
\* entry points the repository also calls without an endpoint in front:
\* daily_processing_job (process_new_files) and batch_process.py
\* (process_all_files)
DirectKinds == {"new", "all"}
\* entry points whose batch loop awaits pause_event before each batch
Gated(k) == k # "smart"

Min(a, b) == IF a < b THEN a ELSE b

\* ------------------------------------------------------------------ Init
RunInit ==
    /\ status = "idle"
    /\ files_processed = 0
    /\ files_total = 0
    /\ errors = <<>>
    /\ start_time = "None"
    /\ end_time = "None"
    /\ is_paused = FALSE
    /\ pause_event = TRUE
    /\ stop_requested = FALSE
    /\ lockHolder = NoTask
    /\ lockQueue = <<>>
    /\ pc = [t \in Tasks |-> "none"]
    /\ kind = [t \in Tasks |-> "none"]
    /\ idx = [t \in Tasks |-> 0]
    /\ total = [t \in Tasks |-> 0]
    /\ lastExit = "none"
    /\ pause_pending = FALSE
    /\ before_stop = {}

\* ------------------------------------------------ the body of a run
\* status written when the batch loop is left (st: status at that point,
\* sr: stop_requested).  smart_process keeps "stopped"; the other entry
\* points write "completed" unconditionally.
FinalStatus_StatusCheck(k, st, sr) ==
    IF st = "running" THEN "completed" ELSE st

FinalStatus(k, st, sr) ==
    IF k = "smart"
    THEN IF ~sr THEN "completed" ELSE st
    ELSE "completed"

\* status written by the except handler of an entry point
ExceptStatus_Keep(st) == st

ExceptStatus(st) == "failed"

\* the text appended to errors by the except handler
ExceptText(k) ==
    IF k = "smart" THEN "Smart processing failed: err" ELSE "err"

\* the coroutine returns without giving up the lock
Return_KeepLock(t, why) ==
    /\ pc' = [pc EXCEPT ![t] = "done"]
    /\ kind' = [kind EXCEPT ![t] = "none"]
    /\ idx' = [idx EXCEPT ![t] = 0]
    /\ total' = [total EXCEPT ![t] = 0]
    /\ lockHolder' = lockHolder
    /\ lastExit' = why

\* the coroutine of run t returns: its locals are gone, and `async with`
\* has released the lock
Return(t, why) ==
    /\ pc' = [pc EXCEPT ![t] = "done"]
    /\ kind' = [kind EXCEPT ![t] = "none"]
    /\ idx' = [idx EXCEPT ![t] = 0]
    /\ total' = [total EXCEPT ![t] = 0]
    /\ lockHolder' = NoTask
    /\ lastExit' = why

\* the run leaves the batch loop
Finish(t, k, st, sr, why) ==
    /\ status' = FinalStatus(k, st, sr)
    /\ end_time' = "set"
    /\ Return(t, why)

\* the run is suspended at `at` ("batch": in asyncio.gather of
\* _process_batch, "gate": in pause_event.wait()) with loop index i
Suspend(t, k, i, n, st, et, at) ==
    /\ status' = st
    /\ end_time' = et
    /\ pc' = [pc EXCEPT ![t] = at]
    /\ kind' = [kind EXCEPT ![t] = k]
    /\ idx' = [idx EXCEPT ![t] = i]
    /\ total' = [total EXCEPT ![t] = n]
    /\ lockHolder' = t
    /\ lastExit' = "none"

\* the gate followed by no stop check
AfterGate_NoStopCheck(t, k, i, n, st, sr, et) ==
    Suspend(t, k, i, n, st, et, "batch")

\* the stop check that follows the gate in the gated entry points
AfterGate(t, k, i, n, st, sr, et) ==
    IF sr \/ st = "stopped"
    THEN Finish(t, k, st, sr, "break")
    ELSE Suspend(t, k, i, n, st, et, "batch")

\* `await self.pause_event.wait()` returns at once when the event is set
GateOpen == pause_event

\* top of `for i in range(0, len(files), batch_size)` with index i of n
LoopTop(t, k, i, n, st, sr, et) ==
    IF i >= n
    THEN Finish(t, k, st, sr, "exhausted")
    ELSE IF ~Gated(k)
         THEN IF sr
              THEN Finish(t, k, "stopped", sr, "break")
              ELSE Suspend(t, k, i, n, st, et, "batch")
         ELSE IF GateOpen
              THEN AfterGate(t, k, i, n, st, sr, et)
              ELSE Suspend(t, k, i, n, st, et, "gate")

\* what the listing call of entry point k can give: a number of files, or
\* an exception (list_files and _do_full_resync re-raise remote errors;
\* cache.get_files swallows them and returns [])
Listings(k) ==
    {[raised |-> FALSE, n |-> m] : m \in 0..MaxFiles}
    \cup (IF k \in {"smart", "all", "new"} THEN {[raised |-> TRUE, n |-> 0]} ELSE {})

\* history of the start requests: those that were accepted and had not
\* begun their run when the last Stop was accepted; forgotten when a start
\* request is accepted after that Stop (t: the coroutine that moves; it is
\* a new request when it has no position yet)
StartsBeforeStop(t) == IF pc[t] = "none" THEN {} ELSE before_stop

\* the lock has just been taken by t: the code up to the first suspension,
\* answers being what the listing call can give
RunBodyOn(t, k, answers) ==
    /\ stop_requested' = FALSE
    /\ start_time' = "set"
    /\ pause_pending' = FALSE
    /\ before_stop' = StartsBeforeStop(t)
    /\ UNCHANGED <<is_paused, pause_event>>
    /\ \E r \in answers :
         IF r.raised
         THEN /\ status' = ExceptStatus("running")
              /\ errors' = <<ExceptText(k)>>
              /\ end_time' = "set"
              /\ files_processed' = 0
              /\ files_total' = 0
              /\ Return(t, "raised")
         ELSE IF k = "smart" /\ r.n = 0
         THEN /\ status' = "completed"
              /\ errors' = <<>>
              /\ end_time' = "set"
              /\ files_processed' = 0
              /\ files_total' = 0
              /\ Return(t, "nochanges")
         ELSE /\ errors' = <<>>
              /\ files_processed' = 0
              /\ files_total' = r.n
              /\ LoopTop(t, k, 0, r.n, "running", FALSE, "None")

RunBody(t, k) == RunBodyOn(t, k, Listings(k))

\* `async with self.processing_lock` can be entered without waiting
LockFree_NoLock == TRUE

LockFree == lockHolder = NoTask /\ lockQueue = <<>>

\* the entry point is called: take the lock or queue behind it
Enter(t, k) ==
    IF LockFree
    THEN /\ RunBody(t, k)
         /\ lockQueue' = lockQueue
    ELSE /\ lockQueue' = Append(lockQueue, t)
         /\ pc' = [pc EXCEPT ![t] = "waiting"]
         /\ kind' = [kind EXCEPT ![t] = k]
         /\ before_stop' = StartsBeforeStop(t)
         /\ UNCHANGED <<status, files_processed, files_total, errors, start_time,
                        end_time, is_paused, pause_event, stop_requested,
                        lockHolder, idx, total, lastExit, pause_pending>>

\* the next unused coroutine
Fresh(t) == pc[t] = "none" /\ \A u \in Tasks : u < t => pc[u] # "none"

\* the status as recorded, without the pause flag
StatusSeen_Nominal == status

\* get_processing_status: folds the pause flag into the status it returns
StatusSeen == IF is_paused /\ status = "running" THEN "paused" ELSE status

\* ------------------------------------------------------------ actions
\* POST /api/process/{smart,all,new,initial,initial/images,initial/videos}:
\* 409 when the status reads "running", else the background task is added
StartHttp(t, k) ==
    /\ Fresh(t)
    /\ status' = StatusSeen
    /\ IF StatusSeen = "running"
       THEN /\ pc' = [pc EXCEPT ![t] = "rejected"]
            /\ kind' = kind
            /\ before_stop' = before_stop
       ELSE /\ pc' = [pc EXCEPT ![t] = "scheduled"]
            /\ kind' = [kind EXCEPT ![t] = k]
            /\ before_stop' = StartsBeforeStop(t)
    /\ UNCHANGED <<files_processed, files_total, errors, start_time, end_time,
                   is_paused, pause_event, stop_requested, lockHolder, lockQueue,
                   idx, total, lastExit, pause_pending>>
    /\ UNCHANGED <<fileVars, syncVars, e2eVars>>

\* the background task added by the endpoint starts running
TaskBegin(t) ==
    /\ pc[t] = "scheduled"
    /\ Enter(t, kind[t])
    /\ UNCHANGED <<fileVars, syncVars, e2eVars>>

\* an entry point called without the endpoint in front of it
StartDirect(t, k) ==
    /\ Fresh(t)
    /\ k \in DirectKinds
    /\ Enter(t, k)
    /\ UNCHANGED <<fileVars, syncVars, e2eVars>>

\* the released lock wakes its first waiter, which starts its run
LockGrant ==
    /\ lockHolder = NoTask
    /\ lockQueue # <<>>
    /\ RunBody(Head(lockQueue), kind[Head(lockQueue)])
    /\ lockQueue' = Tail(lockQueue)
    /\ UNCHANGED <<fileVars, syncVars, e2eVars>>

\* asyncio.gather returns: _process_batch counts the results, the entry
\* point goes round the loop.  _process_single_file never raises, so no
\* result is an exception and every file of the batch is counted once by
\* _process_batch (smart_process then adds len(batch) again).
\* `batch = dropbox_files[i:i + batch_size]`: the positions, in a list of n
\* files, of the files that _process_batch hands to asyncio.gather
BatchSlice_Rest(i, n) == (i + 1)..n

BatchSlice(i, n) == (i + 1)..Min(i + BATCH_SIZE, n)

BatchStepOn(t, counted, msgs) ==
    /\ pc[t] = "batch"
    /\ LET len == Cardinality(BatchSlice(idx[t], total[t]))
           inc == IF kind[t] = "smart" THEN counted + len ELSE counted
       IN  /\ files_processed' = files_processed + inc
           /\ LoopTop(t, kind[t], idx[t] + BATCH_SIZE, total[t],
                      status, stop_requested, end_time)
    /\ errors' = errors \o msgs
    /\ UNCHANGED <<files_total, start_time, is_paused, pause_event,
                   stop_requested, lockQueue, pause_pending, before_stop>>

BatchStep(t) == BatchStepOn(t, Cardinality(BatchSlice(idx[t], total[t])), <<>>)

BatchEnd(t) ==
    /\ BatchStep(t)
    /\ UNCHANGED <<fileVars, syncVars, e2eVars>>

\* a run woken at the gate resumes after `await self.pause_event.wait()`
GateWake(t) ==
    /\ pc[t] = "gate_woken"
    /\ AfterGate(t, kind[t], idx[t], total[t], status, stop_requested, end_time)
    /\ UNCHANGED <<files_processed, files_total, errors, start_time, is_paused,
                   pause_event, stop_requested, lockQueue, pause_pending,
                   before_stop>>
    /\ UNCHANGED <<fileVars, syncVars, e2eVars>>

\* asyncio.Event.set(): the value becomes true and every waiter's future
\* is resolved (a woken waiter passes the gate even if the event is cleared
\* again before it runs)
WakeGate == [t \in Tasks |-> IF pc[t] = "gate" THEN "gate_woken" ELSE pc[t]]

EventSet == [value |-> TRUE, pcs |-> WakeGate]

\* pause_processing is accepted
PauseAccepted == status \in {"running", "paused"}

Pause ==
    /\ PauseAccepted
    /\ is_paused' = TRUE
    /\ pause_event' = FALSE
    /\ status' = "paused"
    /\ pause_pending' = (pause_pending \/ \E t \in Tasks : pc[t] = "batch")
    /\ before_stop' = before_stop
    /\ UNCHANGED <<files_processed, files_total, errors, start_time, end_time,
                   stop_requested, lockHolder, lockQueue, pc, kind, idx, total,
                   lastExit>>
    /\ UNCHANGED <<fileVars, syncVars, e2eVars>>

\* resume_processing is accepted
ResumeAccepted_FlagOnly == is_paused

ResumeAccepted == is_paused /\ status = "paused"

\* resume_processing: what it returns and what it leaves behind
resume_processing ==
    IF ResumeAccepted
    THEN [accepted |-> TRUE, is_paused |-> FALSE, pause_event |-> EventSet.value,
          pcs |-> EventSet.pcs, status |-> "running"]
    ELSE [accepted |-> FALSE, is_paused |-> is_paused, pause_event |-> pause_event,
          pcs |-> pc, status |-> status]

\* POST /api/process/resume (a refused call, answered 400, changes nothing)
Resume ==
    /\ resume_processing.accepted
    /\ is_paused' = resume_processing.is_paused
    /\ pause_event' = resume_processing.pause_event
    /\ pc' = resume_processing.pcs
    /\ status' = resume_processing.status
    /\ pause_pending' = FALSE
    /\ before_stop' = before_stop
    /\ UNCHANGED <<files_processed, files_total, errors, start_time, end_time,
                   stop_requested, lockHolder, lockQueue, kind, idx, total,
                   lastExit>>
    /\ UNCHANGED <<fileVars, syncVars, e2eVars>>

\* stop_processing is accepted
StopAccepted == status \in {"running", "paused"}

\* what stop_processing does to the gate: self.pause_event.set()
StopEvent_NoSet == [value |-> pause_event, pcs |-> pc]

StopEvent == EventSet

StopOn(pending) ==
    /\ StopAccepted
    /\ is_paused' = FALSE
    /\ stop_requested' = TRUE
    /\ pause_event' = StopEvent.value
    /\ pc' = StopEvent.pcs
    /\ status' = "stopped"
    /\ end_time' = "set"
    /\ pause_pending' = FALSE
    /\ before_stop' = pending
    /\ UNCHANGED <<files_processed, files_total, errors, start_time,
                   lockHolder, lockQueue, kind, idx, total, lastExit>>
    /\ UNCHANGED <<fileVars, syncVars, e2eVars>>

Stop == StopOn(before_stop)

\* the same request, the history noting the start requests that were
\* accepted and have not begun their run (StopSpec)
StopNoted == StopOn({t \in Tasks : pc[t] \in {"scheduled", "waiting"}})

\* GET /api/status
GetStatus ==
    /\ status' = StatusSeen
    /\ UNCHANGED <<files_processed, files_total, errors, start_time, end_time,
                   is_paused, pause_event, stop_requested, lockHolder, lockQueue,
                   pc, kind, idx, total, lastExit, pause_pending, before_stop>>
    /\ UNCHANGED <<fileVars, syncVars, e2eVars>>

\* ------------------------------------------------ per-file workflow
\* One candidate file and the objects the vector store holds for its path.
\* Files of other paths share no state with it.
\* the candidate files a behaviour can follow: an image and a video
Candidates == {[path_display |-> "/a.jpg", file_type |-> "image"],
               [path_display |-> "/b.mp4", file_type |-> "video"]}
\* content_hash values a DropboxFile can carry (Optional[str])
Hashes == {"None", "h1", "h2"}
\* cap on the objects the vector store holds for one path
MaxCopies == 2

\* get_file_by_path returning None
NoFile == [none |-> TRUE]

NoCall == [had_record |-> FALSE, same_hash |-> FALSE, embedding |-> "unset",
           result |-> "none"]

\* no video analysed yet
NoVideo == [frame_captions |-> <<>>, description |-> <<>>]

FileInit ==
    /\ dropbox_file \in Candidates
    /\ content_hash = "h1"
    /\ weaviate = <<>>
    /\ last = NoCall
    /\ video = NoVideo

\* WeaviateService.get_file_by_path on the objects stored for a path:
\* the first one (with_limit(1)), or None when there is none or the query
\* fails (ok = FALSE)
FirstObject(objs, ok) ==
    IF ok /\ objs # <<>> THEN Head(objs) ELSE NoFile

get_file_by_path(ok) == FirstObject(weaviate, ok)

\* the dedup test of _process_single_file: TRUE when the file is skipped
DedupSkip_NoHashTracking(existing_file, hash) ==
    IF existing_file # NoFile /\ SKIP_DUPLICATE_FILES
    THEN existing_file.content_hash = hash
    ELSE FALSE

DedupSkip(existing_file, hash) ==
    IF existing_file # NoFile /\ SKIP_DUPLICATE_FILES
    THEN IF TRACK_CONTENT_HASH /\ existing_file.content_hash = hash
         THEN TRUE
         ELSE FALSE
    ELSE FALSE

\* the validation at the top of WeaviateService.store_file: an object
\* without a vector is refused (False is returned)
StoreAccepts(obj) == obj.embedding # "None"

\* WeaviateService.store_file on the objects stored for a path: update the
\* object found for the path in place, or create one
StoreInto(objs, obj, ok) ==
    IF FirstObject(objs, ok) # NoFile
    THEN <<obj>> \o Tail(objs)
    ELSE Append(objs, obj)

store_file(obj, ok) == StoreInto(weaviate, obj, ok)

\* `if not embedding: return None` of _process_single_file
NoEmbedding_Ignored(embedding) == FALSE

NoEmbedding(embedding) == embedding = "None"

\* what the backends answer to one call of _process_single_file:
\* look1/look2 whether the two path queries succeed, then how far the
\* workflow gets
Fates == {"no_download", "exception", "no_caption", "no_embedding",
          "store_failed", "stored"}

\* _process_single_file for a file of type file_type and content hash
\* hash, objs being the objects stored for its path: what the call did
process_single_file(objs, file_type, hash, look1, look2, fate) ==
    LET existing_file == FirstObject(objs, look1)
        skip == DedupSkip(existing_file, hash)
        caption == IF fate = "no_caption" THEN "None" ELSE "cap"
        \* images embed the picture; a video embeds its caption text
        asked == file_type = "image" \/ caption # "None"
        embedding == IF asked /\ fate # "no_embedding" THEN "vec" ELSE "None"
        obj == [content_hash |-> hash,
                caption |-> caption,
                embedding |-> embedding]
        result == IF skip THEN "skipped"
                  ELSE IF fate = "no_download" THEN "no_download"
                  ELSE IF fate = "exception" THEN "exception"
                  ELSE IF NoEmbedding(embedding) THEN "no_embedding"
                  ELSE IF ~StoreAccepts(obj) \/ fate = "store_failed"
                       THEN "store_failed"
                  ELSE "stored"
    IN  [objs |-> IF result = "stored" THEN StoreInto(objs, obj, look2) ELSE objs,
         had_record |-> existing_file # NoFile,
         same_hash |-> IF existing_file = NoFile THEN FALSE
                       ELSE existing_file.content_hash = hash,
         embedding |-> IF result \in {"no_embedding", "store_failed", "stored"}
                       THEN embedding ELSE "unset",
         result |-> result]

\* _process_single_file(dropbox_file), run on its own
ProcessSingleFile ==
    \E look1, look2 \in BOOLEAN, fate \in Fates :
      \E r \in {process_single_file(weaviate, dropbox_file.file_type, content_hash,
                                    look1, look2, fate)} :
          /\ Len(r.objs) <= MaxCopies
          /\ last' = [had_record |-> r.had_record, same_hash |-> r.same_hash,
                      embedding |-> r.embedding, result |-> r.result]
          /\ weaviate' = r.objs
          /\ UNCHANGED <<dropbox_file, content_hash, SKIP_DUPLICATE_FILES,
                         TRACK_CONTENT_HASH, video>>
          /\ UNCHANGED <<runVars, syncVars, e2eVars>>

\* the remote store reports another content hash for the file
RemoteEdit(h) ==
    /\ h # content_hash
    /\ content_hash' = h
    /\ UNCHANGED <<dropbox_file, weaviate, last, SKIP_DUPLICATE_FILES,
                   TRACK_CONTENT_HASH, video>>
    /\ UNCHANGED <<runVars, syncVars, e2eVars>>

\* ------------------------------------------------ sync and inventory
\* paths of the remote store; the extension of "/n.txt" is in neither
\* config.SUPPORTED_IMAGE_TYPES nor config.SUPPORTED_VIDEO_TYPES
SyncPaths == {"/a.jpg", "/b.mp4", "/n.txt"}
Supported(p) == p \in {"/a.jpg", "/b.mp4"}
FileType(p) == IF p = "/a.jpg" THEN "image" ELSE "video"
\* the paths in the order of `ORDER BY path_display`
PathOrder == <<"/a.jpg", "/b.mp4", "/n.txt">>
\* content hashes the remote store gives a file
SyncHashes == {"h1", "h2"}
Absent == "absent"
\* the id the remote store gives the file at a path
RemoteId == [p \in SyncPaths |->
               IF p = "/a.jpg" THEN "id:1" ELSE IF p = "/b.mp4" THEN "id:2" ELSE "id:3"]
\* cap on the changes made to the remote store in one behaviour
MaxChanges == 2

\* entries of a listing page: dropbox.files.FileMetadata, DeletedMetadata
FileMetadata(p, h) ==
    [tag |-> "file", id |-> RemoteId[p], path_display |-> p, content_hash |-> h]
DeletedMetadata(p) ==
    [tag |-> "deleted", id |-> "None", path_display |-> p, content_hash |-> "None"]

\* the DropboxFile built from a FileMetadata entry
DropboxFileOf(e) ==
    [id |-> e.id, path_display |-> e.path_display,
     file_type |-> FileType(e.path_display), content_hash |-> e.content_hash]

\* ---- LocalCacheService: the rows of table files, as a set
\* INSERT OR REPLACE: rows that hold the id (PRIMARY KEY) or the path
\* (path_lower UNIQUE) of the new row are deleted first
Replaced_IdOnly(row, file) == row.id = file.id

Replaced(row, file) ==
    row.id = file.id \/ row.path_display = file.path_display

\* the row written for a file: its fields and last_synced = current_time
Row(file, current_time) ==
    [id |-> file.id, path_display |-> file.path_display,
     file_type |-> file.file_type, content_hash |-> file.content_hash,
     last_synced |-> current_time]

InsertOrReplace(c, file, current_time) ==
    {row \in c : ~Replaced(row, file)} \cup {Row(file, current_time)}

RECURSIVE InsertAll(_, _, _)
InsertAll(c, files, current_time) ==
    IF files = <<>> THEN c
    ELSE InsertAll(InsertOrReplace(c, Head(files), current_time), Tail(files),
                   current_time)

\* store_files: one transaction; on an exception (ok = FALSE) nothing is
\* written and 0 is returned
store_files(c, files, ok, current_time) ==
    IF ok THEN InsertAll(c, files, current_time) ELSE c

\* remove_file
remove_file(c, path) == {row \in c : row.path_display # path}

\* is_cache_empty: an exception of the query reads as "empty"
is_cache_empty(c, ok) == IF ok THEN c = {} ELSE TRUE

\* the DropboxFile that get_files builds from a row
DropboxFileRow_AllColumns(row) == row

DropboxFileRow(row) ==
    [id |-> row.id, path_display |-> row.path_display,
     file_type |-> row.file_type, content_hash |-> row.content_hash]

\* get_files: the rows as DropboxFile objects, ordered by path_display
RECURSIVE RowsInOrder(_, _, _)
RowsInOrder(c, paths, file_types) ==
    IF paths = <<>> THEN <<>>
    ELSE LET rows == {row \in c : /\ row.path_display = Head(paths)
                                  /\ row.file_type \in file_types}
         IN  (IF rows = {} THEN <<>>
              ELSE <<DropboxFileRow(CHOOSE row \in rows : TRUE)>>)
             \o RowsInOrder(c, Tail(paths), file_types)

get_files(c, file_types) == RowsInOrder(c, PathOrder, file_types)

AllTypes == {"image", "video"}

\* ---- DropboxService
\* the loop body of both listings: supported FileMetadata entries become
\* DropboxFile objects, in order
RECURSIVE SupportedFiles(_)
SupportedFiles(entries) ==
    IF entries = <<>> THEN <<>>
    ELSE LET e == Head(entries)
         IN  (IF e.tag = "file" /\ Supported(e.path_display)
              THEN <<DropboxFileOf(e)>> ELSE <<>>)
             \o SupportedFiles(Tail(entries))

\* the DeletedMetadata branch of the incremental loop: the row is removed
\* at once, while the loop is still reading entries
RECURSIVE RemoveDeleted(_, _)
RemoveDeleted(c, entries) ==
    IF entries = <<>> THEN c
    ELSE LET e == Head(entries)
         IN  RemoveDeleted(IF e.tag = "deleted" THEN remove_file(c, e.path_display)
                           ELSE c,
                           Tail(entries))

\* what files_list_folder("", recursive=True) and its continuation give:
\* one entry per file the remote store holds
RECURSIVE ListingOf(_)
ListingOf(paths) ==
    IF paths = <<>> THEN <<>>
    ELSE (IF remote[Head(paths)] = Absent THEN <<>>
          ELSE <<FileMetadata(Head(paths), remote[Head(paths)])>>)
         \o ListingOf(Tail(paths))

RemoteListing == ListingOf(PathOrder)

\* the sync model leaves the wall clock out: every pass writes the same
\* last_synced
SyncTime == 0

\* `if files:` / `if changed_files:` in front of cache.store_files
StoreWanted(files) == files # <<>>

\* _do_full_resync on inventory c: the outcome of the call
do_full_resync(c, listOk, storeOk) ==
    IF ~listOk
    THEN [raised |-> TRUE, cache |-> c, cursor |-> cursor_file, saved |-> FALSE,
          changed |-> <<>>, relisted |-> TRUE, stored |-> FALSE]
    ELSE LET files == SupportedFiles(RemoteListing)
         IN  [raised |-> FALSE,
              cache |-> IF StoreWanted(files)
                        THEN store_files(c, files, storeOk, SyncTime) ELSE c,
              cursor |-> "set", saved |-> TRUE,
              changed |-> files, relisted |-> TRUE,
              stored |-> StoreWanted(files) /\ storeOk]

\* the incremental loop of get_incremental_changes over the entries the
\* remote store has for the cursor
incremental(c, entries, storeOk) ==
    LET c1 == RemoveDeleted(c, entries)
        changed_files == SupportedFiles(entries)
    IN  [raised |-> FALSE,
         cache |-> IF StoreWanted(changed_files)
                   THEN store_files(c1, changed_files, storeOk, SyncTime) ELSE c1,
         cursor |-> "set", saved |-> TRUE,
         changed |-> changed_files, relisted |-> FALSE,
         stored |-> StoreWanted(changed_files) /\ storeOk]

\* the tests in front of the continue call: an empty inventory or a missing
\* cursor sends the pass to _do_full_resync
NeedsResync_Always(emptyOk) == TRUE

NeedsResync_CursorOnly(emptyOk) == cursor_file = "None"

NeedsResync(emptyOk) == is_cache_empty(cache, emptyOk) \/ cursor_file = "None"

\* answers of files_list_folder_continue: entries, an ApiError saying
\* "reset", or any other exception
Faults == {"none", "reset", "error"}

\* get_incremental_changes: the outcome of one pass.  cut: the number of
\* entries read before the failing continue call.  Every exception inside
\* the outer try, the re-raised ApiError included, ends in the handler
\* that calls _do_full_resync.
get_incremental_changes(emptyOk, fault, cut, storeOk, listOk) ==
    IF NeedsResync(emptyOk)
    THEN do_full_resync(cache, listOk, storeOk)
    ELSE IF fault # "none"
         THEN do_full_resync(RemoveDeleted(cache, SubSeq(delta, 1, cut)),
                             listOk, storeOk)
         ELSE incremental(cache, delta, storeOk)

NoSync == [mode |-> "none", fault |-> "none", raised |-> FALSE, relisted |-> FALSE,
           zero |-> FALSE, wrote |-> FALSE, stored |-> FALSE, changed |-> <<>>,
           found |-> "None", was_empty |-> FALSE, pending |-> <<>>,
           rerun |-> FALSE]

NoStore == [valid |-> FALSE, files |-> <<>>, again |-> FALSE, listing |-> <<>>]

\* what the last inventory operation called on its own handed to its
\* caller: the operation, whether its database call failed, whether an
\* exception left the method, and the value of its return statement
NoReturn == [op |-> "none", failed |-> FALSE, raised |-> FALSE, value |-> 0]

SyncIdle ==
    /\ remote = [p \in SyncPaths |-> Absent]
    /\ delta = <<>>
    /\ changes = 0
    /\ cursor_file = "None"
    /\ cache = {}
    /\ sync = NoSync
    /\ lastStore = NoStore
    /\ returned = NoReturn

\* one call of get_incremental_changes (POST /api/cache/sync,
\* /api/cache/init, smart_process, upgrade_cache.py)
SyncPass ==
    \E emptyOk, storeOk, listOk \in BOOLEAN, fault \in Faults, cut \in 0..Len(delta) :
      \* an answer that the pass never asks for is not enumerated
      /\ (cache = {} \/ cursor_file = "None") => emptyOk
      /\ NeedsResync(emptyOk) => fault = "none"
      /\ fault # "error" => cut = 0
      /\ (~NeedsResync(emptyOk) /\ fault = "none") => listOk
      /\ \E r \in {get_incremental_changes(emptyOk, fault, cut, storeOk, listOk)} :
           /\ (r.raised \/ ~StoreWanted(r.changed)) => storeOk
           /\ cache' = r.cache
           /\ cursor_file' = r.cursor
           /\ delta' = IF r.saved THEN <<>> ELSE delta
           /\ sync' = [mode |-> IF NeedsResync(emptyOk) THEN "full" ELSE "incremental",
                       fault |-> fault,
                       raised |-> r.raised,
                       relisted |-> r.relisted,
                       zero |-> /\ cursor_file # "None" /\ cache # {} /\ emptyOk
                                /\ fault = "none" /\ delta = <<>>,
                       wrote |-> r.cache # cache,
                       stored |-> r.stored,
                       changed |-> r.changed,
                       found |-> cursor_file,
                       was_empty |-> cache = {},
                       pending |-> <<>>,
                       rerun |-> sync.mode = "crashed" /\ delta = sync.pending]
      /\ UNCHANGED <<remote, changes, lastStore, returned>>
      /\ UNCHANGED <<runVars, fileVars, e2eVars>>

\* DELETE /api/cache/clear: cache.clear_cache() empties the files and
\* sync_metadata tables of the database; on an exception nothing is deleted
ClearCache(ok) ==
    /\ cache' = IF ok THEN {} ELSE cache
    /\ sync' = IF ok THEN [NoSync EXCEPT !.mode = "cleared", !.found = cursor_file]
               ELSE sync
    /\ UNCHANGED <<remote, delta, changes, cursor_file, lastStore, returned>>
    /\ UNCHANGED <<runVars, fileVars, e2eVars>>

\* the process dies in an incremental pass after cache.store_files and
\* before _save_cursor: the rows are written, the cursor file is the old one
SyncCrash ==
    /\ ~NeedsResync(TRUE)
    /\ delta # <<>>
    /\ cache' = incremental(cache, delta, TRUE).cache
    /\ sync' = [NoSync EXCEPT !.mode = "crashed", !.pending = delta,
                              !.found = cursor_file]
    /\ UNCHANGED <<remote, delta, changes, cursor_file, lastStore, returned>>
    /\ UNCHANGED <<runVars, fileVars, e2eVars>>

\* the remote store changes: the server has an entry for every cursor it
\* gave out
RemoteUpsert(p, h) ==
    /\ changes < MaxChanges
    /\ remote[p] # h
    /\ Supported(p) \/ h = "h1"
    /\ remote' = [remote EXCEPT ![p] = h]
    /\ delta' = IF cursor_file = "None" THEN delta
                ELSE Append(delta, FileMetadata(p, h))
    /\ changes' = changes + 1
    /\ UNCHANGED <<cursor_file, cache, sync, lastStore, returned>>
    /\ UNCHANGED <<runVars, fileVars, e2eVars>>

RemoteDelete(p) ==
    /\ changes < MaxChanges
    /\ remote[p] # Absent
    /\ remote' = [remote EXCEPT ![p] = Absent]
    /\ delta' = IF cursor_file = "None" THEN delta
                ELSE Append(delta, DeletedMetadata(p))
    /\ changes' = changes + 1
    /\ UNCHANGED <<cursor_file, cache, sync, lastStore, returned>>
    /\ UNCHANGED <<runVars, fileVars, e2eVars>>

\* ---- the inventory operations called on their own (CacheSpec)
Ids == {"id:1", "id:2"}
\* the DropboxFile objects a caller can hand to store_files: every id at
\* every supported path, and one file with its content changed
CacheFiles ==
    {[id |-> i, path_display |-> p, file_type |-> FileType(p), content_hash |-> "h1"] :
        i \in Ids, p \in {q \in SyncPaths : Supported(q)}}
    \cup {[id |-> "id:1", path_display |-> "/a.jpg", file_type |-> "image",
           content_hash |-> "h2"]}
\* longest list handed to store_files
MaxUpsert == 2
FileLists == UNION {[1..n -> CacheFiles] : n \in 0..MaxUpsert}
\* values datetime.now() takes
MaxClock == 1
Times == 0..MaxClock

\* the value store_files returns: stored_count, or 0 from its handler
stored_count(files, ok) == IF ok THEN Len(files) ELSE 0

\* the value remove_file returns: whether a row was deleted, or False from
\* its handler
removed(c, path, ok) == ok /\ \E row \in c : row.path_display = path

\* cache.store_files(files)
StoreFiles(files, ok, current_time) ==
    /\ cache' = store_files(cache, files, ok, current_time)
    /\ lastStore' = IF lastStore.valid /\ lastStore.files = files
                    THEN [valid |-> TRUE, files |-> files, again |-> TRUE,
                          listing |-> get_files(cache, AllTypes)]
                    ELSE IF ok
                    THEN [valid |-> TRUE, files |-> files, again |-> FALSE,
                          listing |-> <<>>]
                    ELSE NoStore
    /\ UNCHANGED <<remote, delta, changes, cursor_file, sync, returned>>
    /\ UNCHANGED <<runVars, fileVars, e2eVars>>

\* cache.remove_file(path)
RemoveFile(path) ==
    /\ cache' = remove_file(cache, path)
    /\ lastStore' = NoStore
    /\ UNCHANGED <<remote, delta, changes, cursor_file, sync, returned>>
    /\ UNCHANGED <<runVars, fileVars, e2eVars>>

\* ---- the inventory operations and what they hand to their caller
\* (CallSpec)
\* count = cache.store_files(files)
StoreFilesCall(files, ok, current_time) ==
    /\ cache' = store_files(cache, files, ok, current_time)
    /\ returned' = [op |-> "store_files", failed |-> ~ok, raised |-> FALSE,
                    value |-> stored_count(files, ok)]
    /\ UNCHANGED <<remote, delta, changes, cursor_file, sync, lastStore>>
    /\ UNCHANGED <<runVars, fileVars, e2eVars>>

\* found = cache.remove_file(path)
RemoveFileCall(path, ok) ==
    /\ cache' = IF ok THEN remove_file(cache, path) ELSE cache
    /\ returned' = [op |-> "remove_file", failed |-> ~ok, raised |-> FALSE,
                    value |-> removed(cache, path, ok)]
    /\ UNCHANGED <<remote, delta, changes, cursor_file, sync, lastStore>>
    /\ UNCHANGED <<runVars, fileVars, e2eVars>>

\* cache.get_files(file_types=...): the list, or [] from its handler
GetFiles(file_types, ok) ==
    /\ returned' = [op |-> "get_files", failed |-> ~ok, raised |-> FALSE,
                    value |-> IF ok THEN get_files(cache, file_types) ELSE <<>>]
    /\ UNCHANGED <<remote, delta, changes, cursor_file, cache, sync, lastStore>>
    /\ UNCHANGED <<runVars, fileVars, e2eVars>>

\* cache.is_cache_empty()
IsCacheEmpty(ok) ==
    /\ returned' = [op |-> "is_cache_empty", failed |-> ~ok, raised |-> FALSE,
                    value |-> is_cache_empty(cache, ok)]
    /\ UNCHANGED <<remote, delta, changes, cursor_file, cache, sync, lastStore>>
    /\ UNCHANGED <<runVars, fileVars, e2eVars>>

\* ------------------------------------------------ sync, runs and store
\* (E2ESpec) runs started one after the other on the inventory, each file
\* of a batch going through _process_single_file against the objects the
\* vector store holds for its path
SupportedPaths == {p \in SyncPaths : Supported(p)}

\* the list the current run works through, and history of the runs: whether
\* every backend has answered so far, the rows the first run found, whether
\* it left every file stored, whether the current run wrote an object
NoRuns == [files |-> <<>>, clean |-> TRUE, rows1 |-> 0, full |-> FALSE,
           touched |-> FALSE]

\* the ways a call of _process_single_file fails
Failures == {"no_download", "exception", "no_embedding", "store_failed"}

\* history of the batches: the entry point of the current run, whether
\* every backend of its listing call answered, whether the inventory
\* database was unavailable to it, for each file of its last batch what the
\* backends answered and how the call ended, and the paths whose last call
\* failed
NoBatch == [kind |-> "none", listed |-> FALSE, down |-> FALSE, batch |-> <<>>,
            failed |-> {}]

E2EIdle ==
    /\ objects = [p \in SupportedPaths |-> <<>>]
    /\ e2e = NoRuns
    /\ hist = NoBatch

\* the files of a list whose modified date is after after_date (recent:
\* the paths with such a date)
RECURSIVE ModifiedAfter(_, _)
ModifiedAfter(files, recent) ==
    IF files = <<>> THEN <<>>
    ELSE (IF Head(files).path_display \in recent THEN <<Head(files)>> ELSE <<>>)
         \o ModifiedAfter(Tail(files), recent)

\* DropboxService.list_files(use_cache=False): the API listing
list_remote(listOk) ==
    IF listOk THEN [raised |-> FALSE, files |-> SupportedFiles(RemoteListing)]
    ELSE [raised |-> TRUE, files |-> <<>>]

\* DropboxService.list_files(): the inventory first, the API when the
\* inventory is empty or gives nothing (getOk = FALSE: get_files returns [])
list_files(emptyOk, getOk, listOk) ==
    LET cached_files == IF getOk THEN get_files(cache, AllTypes) ELSE <<>>
    IN  IF ~is_cache_empty(cache, emptyOk) /\ cached_files # <<>>
        THEN [raised |-> FALSE, files |-> cached_files]
        ELSE list_remote(listOk)

\* DropboxService.get_files_modified_after(after_date)
get_files_modified_after(recent, emptyOk, getOk, listOk) ==
    IF ~is_cache_empty(cache, emptyOk)
    THEN [raised |-> FALSE,
          files |-> IF getOk THEN ModifiedAfter(get_files(cache, AllTypes), recent)
                    ELSE <<>>]
    ELSE LET all_files == list_remote(listOk)
         IN  [raised |-> all_files.raised,
              files |-> ModifiedAfter(all_files.files, recent)]

\* the listing call of entry point k and what it leaves in the inventory
\* and the cursor file (only smart_process syncs)
ListingCall(k, recent, emptyOk, getOk, storeOk, listOk, fault) ==
    IF k = "smart"
    THEN LET r == get_incremental_changes(emptyOk, fault, 0, storeOk, listOk)
         IN  [raised |-> r.raised, files |-> r.changed, cache |-> r.cache,
              cursor |-> r.cursor, saved |-> r.saved]
    ELSE LET r == IF k = "all" THEN list_files(emptyOk, getOk, listOk)
                  ELSE IF k = "new"
                  THEN get_files_modified_after(recent, emptyOk, getOk, listOk)
                  ELSE IF k = "images"
                  THEN [raised |-> FALSE,
                        files |-> IF getOk THEN get_files(cache, {"image"}) ELSE <<>>]
                  ELSE [raised |-> FALSE,
                        files |-> IF getOk THEN get_files(cache, {"video"}) ELSE <<>>]
         IN  [raised |-> r.raised, files |-> r.files, cache |-> cache,
              cursor |-> cursor_file, saved |-> FALSE]

\* every supported file of the remote store has one object with a vector
FullyStored(objs) ==
    \A p \in SupportedPaths :
        remote[p] # Absent
        => /\ Len(objs[p]) = 1
           /\ objs[p][1].embedding = "vec"
           /\ objs[p][1].content_hash = remote[p]

\* what the listing call of entry point k can answer in the current state
\* (clean: every backend answered; down: no call to the inventory database
\* succeeded)
ListingAnswers(k) ==
    {[out |-> ListingCall(k, a.recent, a.emptyOk, a.getOk, a.storeOk, a.listOk,
                          a.fault),
      clean |-> a.emptyOk /\ a.getOk /\ a.storeOk /\ a.listOk /\ a.fault = "none",
      down |-> ~a.emptyOk /\ ~a.getOk /\ ~a.storeOk] :
        a \in {b \in [emptyOk : BOOLEAN, getOk : BOOLEAN, storeOk : BOOLEAN,
                      listOk : BOOLEAN, fault : Faults,
                      recent : SUBSET SupportedPaths] :
                 /\ k # "new" => b.recent = {}
                 /\ (k # "smart" \/ NeedsResync(b.emptyOk)) => b.fault = "none"}}

\* the body of entry point k up to its first suspension, its listing call
\* answering a
StartOn(t, k, a) ==
    /\ RunBodyOn(t, k, {[raised |-> a.out.raised, n |-> Len(a.out.files)]})
    /\ lockQueue' = lockQueue
    /\ cache' = a.out.cache
    /\ cursor_file' = a.out.cursor
    /\ delta' = IF a.out.saved THEN <<>> ELSE delta
    /\ UNCHANGED <<remote, changes, sync, lastStore, returned, objects>>
    /\ UNCHANGED fileVars

\* an entry point is called while no run is active
E2EStart(t, k) ==
    /\ Fresh(t)
    /\ LockFree
    /\ \E a \in ListingAnswers(k) :
        /\ StartOn(t, k, a)
        /\ e2e' = [files |-> a.out.files,
                   clean |-> e2e.clean /\ a.clean,
                   rows1 |-> IF t = 1 THEN Cardinality(cache) ELSE e2e.rows1,
                   full |-> IF t = 1 /\ pc'[t] = "done" THEN FullyStored(objects)
                            ELSE e2e.full,
                   touched |-> FALSE]
        /\ hist' = hist

\* asyncio.gather over the files of a batch, one call after the other (the
\* files are on different paths): the objects afterwards, whether a file
\* was stored, and how each call ended
RECURSIVE ProcessFiles_StopAtFailure(_, _, _, _, _, _)
ProcessFiles_StopAtFailure(objs, batch, i, look1, look2, fate) ==
    IF i > Len(batch) THEN [objects |-> objs, touched |-> FALSE, results |-> <<>>]
    ELSE LET file == batch[i]
             r == process_single_file(objs[file.path_display], file.file_type,
                                      file.content_hash, look1[i], look2[i], fate[i])
         IN  IF r.result \in Failures
             THEN [objects |-> objs, touched |-> FALSE,
                   results |-> <<r.result>>
                               \o [j \in 1..(Len(batch) - i) |-> "not_started"]]
             ELSE LET rest == ProcessFiles_StopAtFailure(
                                  [objs EXCEPT ![file.path_display] = r.objs],
                                  batch, i + 1, look1, look2, fate)
                  IN  [objects |-> rest.objects,
                       touched |-> rest.touched \/ r.result = "stored",
                       results |-> <<r.result>> \o rest.results]

RECURSIVE ProcessFiles(_, _, _, _, _, _)
ProcessFiles(objs, batch, i, look1, look2, fate) ==
    IF i > Len(batch) THEN [objects |-> objs, touched |-> FALSE, results |-> <<>>]
    ELSE LET file == batch[i]
             r == process_single_file(objs[file.path_display], file.file_type,
                                      file.content_hash, look1[i], look2[i], fate[i])
             rest == ProcessFiles([objs EXCEPT ![file.path_display] = r.objs],
                                  batch, i + 1, look1, look2, fate)
         IN  [objects |-> rest.objects,
              touched |-> rest.touched \/ r.result = "stored",
              results |-> <<r.result>> \o rest.results]

\* what a call of _process_single_file hands to asyncio.gather: the
\* ProcessedFile, or None (skipped, nothing to download, no embedding, store
\* refused, and every exception, which the call catches itself)
Returned(result) ==
    IF result = "stored" THEN "ProcessedFile" ELSE "None"

\* _process_batch: a result that is not an exception adds 1 to
\* files_processed
Counted(results) ==
    Cardinality({i \in 1..Len(results) : Returned(results[i]) # "Exception"})

\* _process_batch: a result that is an exception adds a text to errors
RECURSIVE ErrorTexts(_)
ErrorTexts(results) ==
    IF results = <<>> THEN <<>>
    ELSE (IF Returned(Head(results)) = "Exception" THEN <<"Error processing file">>
          ELSE <<>>) \o ErrorTexts(Tail(results))

\* the files of the batch run t is in
BatchOf(t) ==
    [j \in 1..Cardinality(BatchSlice(idx[t], total[t])) |-> e2e.files[idx[t] + j]]

\* what the backends can answer to the calls of the batch of run t, and
\* what the calls do then.  Answers that no call asks for are not
\* enumerated: those of files the batch does not have, of a path query
\* that finds no object either way, of the path query of a store that is
\* not made, and of the backends of a skipped file.
BatchAnswers(t) ==
    {x \in {[fate |-> a.fate,
             clean |-> \A i \in 1..BATCH_SIZE :
                          a.look1[i] /\ a.look2[i] /\ a.fate[i] = "stored",
             r |-> ProcessFiles(objects, BatchOf(t), 1, a.look1, a.look2, a.fate),
             look1 |-> a.look1, look2 |-> a.look2] :
               a \in [look1 : [1..BATCH_SIZE -> BOOLEAN],
                      look2 : [1..BATCH_SIZE -> BOOLEAN],
                      fate : [1..BATCH_SIZE -> Fates]]} :
       /\ \A i \in 1..BATCH_SIZE :
            i > Len(BatchOf(t))
            => x.look1[i] /\ x.look2[i] /\ x.fate[i] = "stored"
       /\ \A i \in 1..Len(BatchOf(t)) :
            /\ objects[BatchOf(t)[i].path_display] = <<>> => x.look1[i] /\ x.look2[i]
            /\ x.r.results[i] # "stored" => x.look2[i]
            /\ x.r.results[i] = "skipped" => x.fate[i] = "stored"}

\* asyncio.gather of the batch of run t returns with answers x;
\* _process_batch counts and the entry point goes round its loop
BatchOn(t, x) ==
    /\ \A p \in SupportedPaths : Len(x.r.objects[p]) <= MaxCopies
    /\ BatchStepOn(t, Counted(x.r.results), ErrorTexts(x.r.results))
    /\ objects' = x.r.objects
    /\ UNCHANGED syncVars
    /\ UNCHANGED fileVars

E2EBatchEnd(t) ==
    /\ pc[t] = "batch"
    /\ \E x \in BatchAnswers(t) :
         /\ BatchOn(t, x)
         /\ e2e' = [e2e EXCEPT
                      !.clean = e2e.clean /\ x.clean,
                      !.full = IF t = 1 /\ pc'[t] = "done" THEN FullyStored(x.r.objects)
                               ELSE e2e.full,
                      !.touched = e2e.touched \/ x.r.touched]
         /\ hist' = hist

\* ---- the same two steps, recording the batches instead of the runs
BatchRun(t, k) ==
    /\ Fresh(t)
    /\ LockFree
    /\ \E a \in ListingAnswers(k) :
        /\ StartOn(t, k, a)
        /\ e2e' = [e2e EXCEPT !.files = a.out.files]
        /\ hist' = [kind |-> k, listed |-> a.clean, down |-> a.down,
                    batch |-> <<>>, failed |-> hist.failed]

BatchDone(t) ==
    /\ pc[t] = "batch"
    /\ \E x \in BatchAnswers(t) :
         /\ BatchOn(t, x)
         /\ e2e' = e2e
         /\ hist' = [hist EXCEPT
                       !.batch = [i \in 1..Len(BatchOf(t)) |->
                                    [path_display |-> BatchOf(t)[i].path_display,
                                     fate |-> x.fate[i],
                                     result |-> x.r.results[i]]],
                       !.failed = {p \in SupportedPaths :
                                     \/ \E i \in 1..Len(BatchOf(t)) :
                                          /\ BatchOf(t)[i].path_display = p
                                          /\ x.r.results[i] \in Failures
                                     \/ /\ p \in hist.failed
                                        /\ \A i \in 1..Len(BatchOf(t)) :
                                             BatchOf(t)[i].path_display # p}]

\* ------------------------------------------------- video descriptions
\* (StitchSpec) a frame caption is modelled by its lower-case, trimmed text
\* and by what lower() and strip() change in it: whether its first letter
\* is a capital, whether a blank follows it
Texts == {"a dog running", "a dog jumping", "a dog"}

Captions == [text : Texts, cased : BOOLEAN, padded : BOOLEAN]

\* str.lower()
lower(caption) == [caption EXCEPT !.cased = FALSE]

\* str.strip()
strip(caption) == [caption EXCEPT !.padded = FALSE]

\* most frames of a video that got a caption
MaxFrames == 3

CaptionLists == UNION {[1..n -> Captions] : n \in 0..MaxFrames}

\* the loop "Remove duplicates while preserving order": a caption is
\* appended unless caption.lower().strip() is in seen
unique_captions_KeepAll(frame_captions, seen) == frame_captions

RECURSIVE unique_captions(_, _)
unique_captions(frame_captions, seen) ==
    IF frame_captions = <<>> THEN <<>>
    ELSE LET caption == Head(frame_captions)
             caption_lower == strip(lower(caption))
         IN  IF caption_lower \notin seen
             THEN <<caption>> \o unique_captions(Tail(frame_captions),
                                                 seen \cup {caption_lower})
             ELSE unique_captions(Tail(frame_captions), seen)

\* ", ".join([cap.lower() for cap in middle_parts]), as the pieces of the
\* string
RECURSIVE middle_text(_)
middle_text(middle_parts) ==
    IF middle_parts = <<>> THEN <<>>
    ELSE IF Len(middle_parts) = 1 THEN <<lower(Head(middle_parts))>>
    ELSE <<lower(Head(middle_parts)), ", ">> \o middle_text(Tail(middle_parts))

\* _combine_frame_captions: the returned string as the sequence of its
\* pieces, literal texts and captions in turn
combine_frame_captions(frame_captions) ==
    IF frame_captions = <<>> THEN <<"Video content">>
    ELSE IF Len(frame_captions) = 1
    THEN <<"Video showing ", lower(frame_captions[1])>>
    ELSE LET unique == unique_captions(frame_captions, {})
             n == Len(unique)
         IN  IF n = 1 THEN <<"Video showing ", lower(unique[1])>>
             ELSE IF n = 2
             THEN <<"Video showing ", lower(unique[1]), ", then ", lower(unique[2])>>
             ELSE IF n = 3
             THEN <<"Video showing ", lower(unique[1]), ", followed by ",
                    lower(unique[2]), ", and ending with ", lower(unique[3])>>
             ELSE <<"Video beginning with ", lower(unique[1]), ", showing ">>
                  \o middle_text(SubSeq(unique, 2, n - 1))
                  \o <<", and ending with ", lower(unique[n])>>

\* ------------------------------------------------------ specifications

Init ==
    /\ RunInit
    /\ FileInit
    /\ SyncIdle
    /\ E2EIdle
    /\ dropbox_file.file_type = "image"
    /\ SKIP_DUPLICATE_FILES = TRUE
    /\ TRACK_CONTENT_HASH = TRUE

RunSteps ==
    \/ \E t \in Tasks, k \in Kinds : StartHttp(t, k)
    \/ \E t \in Tasks, k \in Kinds : StartDirect(t, k)
    \/ \E t \in Tasks : TaskBegin(t)
    \/ LockGrant
    \/ \E t \in Tasks : BatchEnd(t)
    \/ \E t \in Tasks : GateWake(t)
    \/ Pause
    \/ Resume
    \/ GetStatus

Next ==
    \/ RunSteps
    \/ Stop

Spec == Init /\ [][Next]_vars

StopNext ==
    \/ RunSteps
    \/ StopNoted

StopSpec == Init /\ [][StopNext]_vars

\* the event loop runs every ready coroutine; the backends answer, so a
\* batch in flight ends
Fairness ==
    /\ \A t \in Tasks : WF_vars(TaskBegin(t))
    /\ \A t \in Tasks : WF_vars(BatchEnd(t))
    /\ \A t \in Tasks : WF_vars(GateWake(t))
    /\ WF_vars(LockGrant)

FairSpec == Init /\ [][Next]_vars /\ Fairness

\* in addition, whoever closed the pause gate comes back: while the gate is
\* closed, a Resume or Stop request that the service accepts is eventually
\* made
Attended == WF_vars(~pause_event /\ (Resume \/ Stop))

AttendedSpec == Init /\ [][Next]_vars /\ Fairness /\ Attended

\* the two dedup switches are read from the environment at import
FileSpecInit ==
    /\ RunInit
    /\ FileInit
    /\ SyncIdle
    /\ E2EIdle
    /\ SKIP_DUPLICATE_FILES \in BOOLEAN
    /\ TRACK_CONTENT_HASH \in BOOLEAN

FileNext ==
    \/ ProcessSingleFile
    \/ \E h \in Hashes : RemoteEdit(h)

FileSpec == FileSpecInit /\ [][FileNext]_vars

\* the remote store holds any files when the service is first started; the
\* inventory database is new and there is no cursor file
SyncSpecInit ==
    /\ RunInit
    /\ FileInit
    /\ dropbox_file.file_type = "image"
    /\ SKIP_DUPLICATE_FILES = TRUE
    /\ TRACK_CONTENT_HASH = TRUE
    /\ remote \in [SyncPaths -> SyncHashes \cup {Absent}]
    /\ remote["/n.txt"] # "h2"
    /\ delta = <<>>
    /\ changes = 0
    /\ cursor_file = "None"
    /\ cache = {}
    /\ sync = NoSync
    /\ lastStore = NoStore
    /\ returned = NoReturn
    /\ E2EIdle

SyncNext ==
    \/ SyncPass
    \/ \E p \in SyncPaths, h \in SyncHashes : RemoteUpsert(p, h)
    \/ \E p \in SyncPaths : RemoteDelete(p)

SyncSpec == SyncSpecInit /\ [][SyncNext]_vars

CrashNext ==
    \/ SyncNext
    \/ SyncCrash
    \/ \E ok \in BOOLEAN : ClearCache(ok)

CrashSpec == SyncSpecInit /\ [][CrashNext]_vars

CacheNext ==
    \/ \E files \in FileLists, ok \in BOOLEAN, t \in Times : StoreFiles(files, ok, t)
    \/ \E p \in SyncPaths : RemoveFile(p)

CacheSpec == Init /\ [][CacheNext]_vars

CallNext ==
    \/ \E files \in FileLists, ok \in BOOLEAN, t \in Times :
            StoreFilesCall(files, ok, t)
    \/ \E p \in SyncPaths, ok \in BOOLEAN : RemoveFileCall(p, ok)
    \/ \E file_types \in {{"image"}, {"video"}, AllTypes}, ok \in BOOLEAN :
            GetFiles(file_types, ok)
    \/ \E ok \in BOOLEAN : IsCacheEmpty(ok)

CallSpec == Init /\ [][CallNext]_vars

\* analyze_video_frames hands the captions of the frames to
\* _combine_frame_captions
CombineFrameCaptions ==
    /\ video.description = <<>>
    /\ video' = [video EXCEPT
                    !.description = combine_frame_captions(video.frame_captions)]
    /\ UNCHANGED <<SKIP_DUPLICATE_FILES, TRACK_CONTENT_HASH, dropbox_file,
                   content_hash, weaviate, last>>
    /\ UNCHANGED <<runVars, syncVars, e2eVars>>

\* the frames of a video have their captions; the description is not made
\* yet
StitchInit ==
    /\ RunInit
    /\ dropbox_file = [path_display |-> "/b.mp4", file_type |-> "video"]
    /\ content_hash = "h1"
    /\ weaviate = <<>>
    /\ last = NoCall
    /\ video \in [frame_captions : CaptionLists, description : {<<>>}]
    /\ SKIP_DUPLICATE_FILES = TRUE
    /\ TRACK_CONTENT_HASH = TRUE
    /\ SyncIdle
    /\ E2EIdle

StitchNext == CombineFrameCaptions

StitchSpec == StitchInit /\ [][StitchNext]_vars

\* an empty inventory, no cursor, a remote store that holds one image and
\* one video and does not change; both dedup switches on
E2EInit ==
    /\ RunInit
    /\ FileInit
    /\ dropbox_file.file_type = "image"
    /\ SKIP_DUPLICATE_FILES = TRUE
    /\ TRACK_CONTENT_HASH = TRUE
    /\ remote = [p \in SyncPaths |-> IF Supported(p) THEN "h1" ELSE Absent]
    /\ delta = <<>>
    /\ changes = 0
    /\ cursor_file = "None"
    /\ cache = {}
    /\ sync = NoSync
    /\ lastStore = NoStore
    /\ returned = NoReturn
    /\ E2EIdle

E2ENext ==
    \/ SyncPass
    \/ \E t \in Tasks, k \in Kinds : E2EStart(t, k)
    \/ \E t \in Tasks : E2EBatchEnd(t)

E2ESpec == E2EInit /\ [][E2ENext]_vars

BatchNext ==
    \/ \E t \in Tasks, k \in Kinds : BatchRun(t, k)
    \/ \E t \in Tasks : BatchDone(t)

BatchSpec == E2EInit /\ [][BatchNext]_vars

\* ================================================================ claims
\* a start attempt is made in this step by coroutine t
Attempt(t) == pc[t] = "none" /\ pc'[t] # "none"
\* coroutine t is suspended inside the body of its run
InBody(t) == pc[t] \in {"gate", "gate_woken", "batch"}
\* coroutine t is suspended at `await self.pause_event.wait()`
AtGate(t) == pc[t] \in {"gate", "gate_woken"}
\* a batch of coroutine t is started in this step
BatchStarts(t) == pc'[t] = "batch" /\ (pc[t] # "batch" \/ idx'[t] # idx[t])
\* a run begins in this step (its coroutine gets past the lock)
RunStarts ==
    \E t \in Tasks : /\ pc[t] \in {"none", "scheduled", "waiting"}
                     /\ pc'[t] \in {"gate", "batch", "done"}

\* C1: while a run is Running, every further start attempt is rejected and
\* leaves files_processed, files_total and errors of the running run
\* unchanged.
C1_StartWhileRunningRejected ==
    [][\A t \in Tasks :
         (Attempt(t) /\ status = "running" /\ ~is_paused)
         => (pc'[t] = "rejected"
             /\ UNCHANGED <<files_processed, files_total, errors>>)]_vars

\* C2: a start attempt made while the current run is Paused is rejected:
\* it is neither accepted (scheduled, started) nor queued behind the lock.
C2_StartWhilePausedRejected ==
    [][\A t \in Tasks :
         (Attempt(t) /\ status = "paused" /\ lockHolder # NoTask)
         => pc'[t] = "rejected"]_vars

\* C3: no start attempt ever waits for the run lock (it fails at once with
\* a conflict instead).
C3_NoStartWaitsForLock == \A t \in Tasks : pc[t] # "waiting"

\* C4: at most one run is inside its run body at any time, and it is the
\* holder of the run lock.
C4_AtMostOneRunInBody ==
    /\ Cardinality({t \in Tasks : InBody(t)}) <= 1
    /\ \A t \in Tasks : InBody(t) => lockHolder = t

\* C4 witness: a second start attempt is waiting while a run is in a batch
C4_Witness ==
    \E t, u \in Tasks : t # u /\ pc[t] = "batch" /\ pc[u] = "waiting"

\* C5: once Pause is accepted while a batch is in flight, no later batch of
\* the run is started until Resume or Stop is accepted (pause_pending is
\* true exactly in between).
C5_NoBatchStartsWhilePaused ==
    [][\A t \in Tasks : BatchStarts(t) => ~pause_pending]_vars

\* C6: a status that is Stopped stays Stopped, with end_time set, in every
\* step that does not start a new run.
C6_StoppedStaysStopped ==
    [][(status = "stopped" /\ ~RunStarts)
       => (status' = "stopped" /\ end_time' = "set")]_vars

\* C7: once Stop is accepted while a run waits at the batch gate, the gate
\* is open (no run stays blocked on the event), the run starts no further
\* batch, and it eventually terminates and releases the run lock.
C7_StoppedAtGateTerminates ==
    /\ [](stop_requested => \A t \in Tasks : pc[t] # "gate")
    /\ [][\A t \in Tasks : (AtGate(t) /\ stop_requested) => ~BatchStarts(t)]_vars
    /\ \A t \in Tasks :
         (AtGate(t) /\ stop_requested) ~> (pc[t] = "done" /\ lockHolder # t)

\* C7 witness: Stop was accepted for a run that was waiting at the gate
C7_Witness ==
    \E t \in Tasks : pc[t] = "gate_woken" /\ stop_requested /\ status = "stopped"

\* C8: when the task of the current run has terminated (and whenever the
\* run lock is free) status is neither Running nor Paused; when the run
\* ended by an exception, status is Failed, errors holds the error text
\* and end_time is set.
C8_TerminatedRunNotActive ==
    /\ (lastExit # "none" \/ lockHolder = NoTask)
       => status \notin {"running", "paused"}
    /\ lastExit = "raised"
       => /\ status = "failed"
          /\ errors # <<>>
          /\ errors[Len(errors)] \in {ExceptText(k) : k \in Kinds}
          /\ end_time = "set"

\* C8 witness: a run was ended by an exception of its listing call
C8_Witness == lastExit = "raised" /\ \E t \in Tasks : pc[t] = "done"

\* C9: a run whose batches are exhausted without a Stop request ends
\* Completed with end_time set, whatever Pause and Resume did meanwhile.
C9_ExhaustedRunCompleted ==
    (lastExit = "exhausted" /\ ~stop_requested)
    => (status = "completed" /\ end_time = "set")

\* C9 witness: a run with files ran to exhaustion although Pause was
\* accepted during its last batch
C9_Witness ==
    /\ lastExit = "exhausted"
    /\ ~stop_requested
    /\ is_paused
    /\ files_total > 0

\* C10: the last dedup decision is skip exactly when the path query gave a
\* record, its stored content hash equals the candidate's, and both
\* SKIP_DUPLICATE_FILES and TRACK_CONTENT_HASH are on; in every other case
\* (no record, differing hash, either switch off) the file is processed.
C10_DedupDecision ==
    last.result # "none"
    => ((last.result = "skipped")
        <=> (last.had_record /\ last.same_hash
             /\ SKIP_DUPLICATE_FILES /\ TRACK_CONTENT_HASH))

\* C10 witness: a file with a stored record of equal hash was skipped
C10_Witness ==
    last.had_record /\ last.same_hash /\ last.result = "skipped"

\* C11: a call of _process_single_file for a file whose content hash is
\* absent never ends in the dedup skip, whatever the store holds for its
\* path and whatever the two switches say.
C11_AbsentHashNeverSkipped ==
    [][(ProcessSingleFile /\ content_hash = "None")
       => last'.result # "skipped"]_vars

\* C12: every object in the vector store carries a vector, and a call in
\* which the embedding step gave no vector returned before store_file
\* (its result is neither "stored" nor "store_failed").
C12_NoVectorNeverStored ==
    /\ \A i \in 1..Len(weaviate) : weaviate[i].embedding # "None"
    /\ last.embedding = "None" => last.result = "no_embedding"

\* C12 witness: the store holds an object for the path and a later call
\* for it got no vector
C12_Witness ==
    /\ weaviate # <<>>
    /\ last.embedding = "None"
    /\ last.result = "no_embedding"

\* C13: the vector store never holds more than one object for a path.
C13_OneRecordPerPath == Len(weaviate) <= 1

\* C14: the inventory is empty and the remote store holds one image and
\* one video; a sync has written 2 rows before the first run; the first
\* run left one object with a vector per file; nothing changed remotely and
\* every backend answered.  Then the second run stores nothing again and
\* ends with files_processed = 0 and status "completed".
C14_SecondRunProcessesNothing ==
    (/\ \A t \in Tasks : pc[t] = IF t <= 2 THEN "done" ELSE "none"
     /\ e2e.clean
     /\ e2e.rows1 = 2
     /\ e2e.full)
    => (status = "completed" /\ files_processed = 0 /\ ~e2e.touched)

\* the rows an inventory in step with the remote store holds: one per
\* supported file of the remote store
RemoteRows ==
    {DropboxFileOf(FileMetadata(p, remote[p])) :
        p \in {q \in SyncPaths : Supported(q) /\ remote[q] # Absent}}

\* the files the inventory holds
CacheFilesNow == {DropboxFileRow(row) : row \in cache}

\* C15: after a pass whose continue call answered "reset" and which
\* returned normally with its inventory write accepted, and before the
\* remote store changes again, the remote store was listed anew and the
\* inventory holds exactly one row per supported remote file: no row of a
\* file that is gone, no path twice.
C15_ResetResyncExact ==
    (/\ sync.fault = "reset"
     /\ ~sync.raised
     /\ sync.stored \/ sync.changed = <<>>
     /\ delta = <<>>)
    => (sync.relisted /\ CacheFilesNow = RemoteRows /\ Cardinality(cache) = Cardinality(RemoteRows))

\* C16: whenever the remote store has a delta for the cursor, cutting it
\* into two non-empty pages and applying page 1 in one incremental pass
\* and page 2 in the next leaves the same inventory rows as one
\* incremental pass over both pages (the inventory writes succeeding and
\* the inventory not empty in between).
C16_TwoPassesEqualOnePass ==
    ~NeedsResync(TRUE)
    => \A k \in 1..(Len(delta) - 1) :
         LET page1 == SubSeq(delta, 1, k)
             page2 == SubSeq(delta, k + 1, Len(delta))
             one == incremental(cache, delta, TRUE).cache
             mid == incremental(cache, page1, TRUE).cache
             two == incremental(mid, page2, TRUE).cache
         IN  mid # {} => two = one

\* C17: a pass in which the continue call raised an unclassified error
\* ends with the error raised to its caller and without the remote store
\* being listed from scratch.
C17_ErrorReachesCaller ==
    sync.fault = "error" => (sync.raised /\ ~sync.relisted)

\* C18: a pass that used a valid cursor on a non-empty inventory and got
\* no entries returns normally with an empty change list, leaves the
\* inventory rows as they were and does not list the remote store anew.
C18_ZeroChangesSucceeds ==
    sync.zero
    => /\ ~sync.raised
       /\ sync.changed = <<>>
       /\ ~sync.wrote
       /\ ~sync.relisted
       /\ sync.mode = "incremental"

\* C18 witness: an inventory with rows was synced with nothing changed
C18_Witness == sync.zero /\ cache # {} /\ cursor_file = "set"

\* C19: in every pass that returns with its inventory write accepted, the
\* returned change list holds only records the pass had to upsert: no file
\* whose row was already in the inventory unchanged, and no path that is
\* deleted in the remote store.
C19_ChangeListIsUpserts ==
    [][(/\ remote' = remote
        /\ ~sync'.raised
        /\ sync'.changed = <<>> \/ sync'.stored)
       => \A i \in 1..Len(sync'.changed) :
            /\ sync'.changed[i] \notin CacheFilesNow
            /\ remote[sync'.changed[i].path_display] # Absent]_vars

\* C20: when store_files is called again with the list of its last
\* successful call (nothing else having touched the inventory), get_files
\* returns what it returned before the second call: as many records, with
\* the same field values.
C20_StoreTwiceSameListing ==
    lastStore.again => get_files(cache, AllTypes) = lastStore.listing

\* C20 witness: a list of two files that collide on the id was stored twice
\* at different times
C20_Witness ==
    /\ lastStore.again
    /\ Len(lastStore.files) = 2
    /\ lastStore.files[1].id = lastStore.files[2].id
    /\ lastStore.files[1] # lastStore.files[2]
    /\ \E row \in cache : row.last_synced = MaxClock

\* C21: once Stop has been accepted during a run (stop_requested is reset
\* when a run starts), the batch in flight may end, but the run starts no
\* later batch.
C21_NoLaterBatchAfterStop ==
    [][\A t \in Tasks : (InBody(t) /\ stop_requested) => ~BatchStarts(t)]_vars

\* C21 witness: a run was stopped during a batch that was not its last; the
\* batch ended, its files are counted, and the run left the loop with files
\* remaining
C21_Witness ==
    /\ lastExit = "break"
    /\ stop_requested
    /\ files_processed > 0
    /\ files_processed < files_total

\* C22: resume_processing is accepted only when the status is Paused, and
\* then a run is inside its body; an accepted call leaves the gate open, no
\* run blocked on it, the pause flag cleared and the status Running; with
\* the status Idle, Running, Stopped, Completed or Failed the call is
\* refused and leaves flag, gate, waiters and status as they were.
C22_ResumeOnlyWhenPaused ==
    LET r == resume_processing
    IN  /\ r.accepted
           => /\ status = "paused"
              /\ \E t \in Tasks : InBody(t)
              /\ r.pause_event
              /\ \A t \in Tasks : r.pcs[t] # "gate"
              /\ ~r.is_paused
              /\ r.status = "running"
        /\ status \in {"idle", "running", "stopped", "completed", "failed"}
           => /\ ~r.accepted
              /\ r.is_paused = is_paused
              /\ r.pause_event = pause_event
              /\ r.pcs = pc
              /\ r.status = status

\* C22 witness: Resume was accepted for a run that waited at the gate (the
\* run is woken, the status is Running again); Stop wakes a waiter too but
\* leaves the status Stopped
C22_Witness ==
    /\ \E t \in Tasks : pc[t] = "gate_woken"
    /\ status = "running"
    /\ ~is_paused
    /\ pause_event
    /\ ~stop_requested

\* C23: whenever the pause gate is closed (pause_event is clear) and the
\* recorded status is Running, a status query returns Paused.
C23_StatusQueryShowsPaused ==
    (~pause_event /\ status = "running") => StatusSeen = "paused"

\* C23 witness: a run waits at the closed gate while the recorded status is
\* Running (the gate was closed during an earlier run and never reopened)
C23_Witness ==
    /\ ~pause_event
    /\ status = "running"
    /\ \E t \in Tasks : pc[t] = "gate"

\* C24: when a file of a batch fails (exception, nothing downloaded, no
\* embedding, store refused), every other file of the batch for which the
\* backends answer is still processed to its end (skipped as unchanged, or
\* stored with a vector), and the status of the run does not become Failed.
C24_FileFailureLeavesSiblings ==
    \A i \in 1..Len(hist.batch) :
        hist.batch[i].result \in Failures
        => /\ status # "failed"
           /\ \A j \in 1..Len(hist.batch) :
                (j # i /\ hist.batch[j].fate = "stored")
                => /\ hist.batch[j].result \in {"stored", "skipped"}
                   /\ \E n \in 1..Len(objects[hist.batch[j].path_display]) :
                        objects[hist.batch[j].path_display][n].embedding = "vec"

\* C24 witness: the first file of a batch raised an exception, the second
\* one was stored, and the run went on to Completed
C24_Witness ==
    /\ Len(hist.batch) = 2
    /\ hist.batch[1].result = "exception"
    /\ hist.batch[2].result = "stored"
    /\ status = "completed"

\* failures among the files of the last batch
FailuresInBatch ==
    Cardinality({i \in 1..Len(hist.batch) : hist.batch[i].result \in Failures})

\* C25: every file of a batch that failed (exception, nothing downloaded,
\* no embedding, store refused) has added an entry to the errors of the run.
C25_FileFailureInErrors == Len(errors) >= FailuresInBatch

\* C26: a file that failed is counted in files_total but not in
\* files_processed: the failures of the last batch are missing from
\* files_processed.
C26_FailedFileNotCounted == files_processed + FailuresInBatch <= files_total

\* the paths of the list the current run works through
PathsListed(files) == {files[i].path_display : i \in 1..Len(files)}

\* C27: a call that fails writes no object for its file; and when the next
\* run starts through an entry point that takes files of every type
\* (smart_process, process_all_files) and its listing backends answer, every
\* file whose last call failed is in the list the run works through (the
\* remote store has not changed: it never does in this specification).
C27_FailedFileProcessedAgain ==
    [][/\ \A p \in SupportedPaths : p \in hist'.failed => objects'[p] = objects[p]
       /\ ((\E t \in Tasks : Attempt(t)) /\ hist'.kind \in {"smart", "all"}
           /\ hist'.listed)
          => hist.failed \subseteq PathsListed(e2e'.files)]_vars

\* the files of run t that are in flight: handed to asyncio.gather, which
\* has not returned yet
InFlight(t) == IF pc[t] = "batch" THEN BatchSlice(idx[t], total[t]) ELSE {}

\* C28: at no time are more than BATCH_SIZE files in flight (over all
\* runs), and when a batch of a run starts, every file of the batch before
\* it has finished: none of them is in flight any more, and they all come
\* earlier in the list than the files now started.
C28_BatchesInSequenceAndBounded ==
    /\ [](/\ \A t \in Tasks : Cardinality(InFlight(t)) <= BATCH_SIZE
          /\ Cardinality({t \in Tasks : InFlight(t) # {}}) <= 1)
    /\ [][\A t \in Tasks :
            BatchStarts(t)
            => /\ InFlight(t)' # {}
               /\ InFlight(t)' \cap InFlight(t) = {}
               /\ \A f \in InFlight(t)' :
                    /\ \A g \in InFlight(t) : g < f
                    /\ \A g \in 1..idx'[t] : g < f]_vars

\* C28 witness: the second batch of a run is in flight, the first one is
\* counted
C28_Witness ==
    \E t \in Tasks :
        /\ pc[t] = "batch"
        /\ idx[t] = BATCH_SIZE
        /\ InFlight(t) # {}
        /\ files_processed >= BATCH_SIZE

C30_InventoryDownFailsRun ==
    hist.down => (status = "failed" /\ \A t \in Tasks : ~InBody(t))

\* C31: whenever the database call of the last inventory operation
\* (store_files, get_files, remove_file, is_cache_empty) failed, its caller
\* got an error (an exception left the method) and not a value that a
\* successful call returns.
C31_StorageFailureIsDistinctError ==
    returned.failed => returned.raised

\* C32: a pass that found the inventory empty did a full resync whatever
\* cursor was persisted: it listed the remote store from scratch; when it
\* returned normally with its inventory write accepted, and before the
\* remote store changes again, the inventory holds every supported remote
\* file and a fresh cursor is persisted; when the listing failed before its
\* last page, the persisted cursor is the one the pass found.
C32_EmptyInventoryFullResync ==
    (sync.mode # "none" /\ sync.was_empty)
    => /\ sync.mode = "full"
       /\ sync.relisted
       /\ (/\ ~sync.raised
           /\ sync.stored \/ sync.changed = <<>>
           /\ delta = <<>>)
          => (CacheFilesNow = RemoteRows /\ cursor_file = "set")
       /\ sync.raised => cursor_file = sync.found

\* C32 witness: the inventory was empty while a cursor was persisted, and
\* the pass stored a file
C32_Witness ==
    /\ sync.was_empty
    /\ sync.found = "set"
    /\ sync.mode = "full"
    /\ sync.stored
    /\ cache # {}
    /\ delta = <<>>

\* C33: when an incremental pass died after its inventory writes and before
\* the cursor was saved, the next pass (the remote store unchanged since,
\* the continue call answering, the pass returning normally with its
\* inventory write accepted) leaves the inventory rows as the dead pass
\* wrote them, which are the rows an uninterrupted pass over the same
\* entries writes, and saves the cursor.
C33_CrashBeforeCursorRecoverable ==
    [][(/\ sync.mode = "crashed"
        /\ sync'.rerun
        /\ sync'.fault = "none"
        /\ sync'.mode = "full" => cache = {}
        /\ ~sync'.raised
        /\ sync'.stored \/ sync'.changed = <<>>)
       => /\ cache' = cache
          /\ cache' = incremental(cache, delta, TRUE).cache
          /\ cursor_file' = "set"
          /\ delta' = <<>>]_vars

\* C34: after clear_cache has returned True and until the next sync pass,
\* the inventory holds no row and no cursor is persisted, so that the next
\* pass finds no cursor.
C34_ClearLeavesNoCursor ==
    sync.mode = "cleared" => (cache = {} /\ cursor_file = "None")

\* the captions of a list whose key no earlier caption of the list has, in
\* the order of the list
FirstOccurrences(captions, Key(_)) ==
    LET F[i \in 0..Len(captions)] ==
            IF i = 0 THEN <<>>
            ELSE IF \A j \in 1..(i - 1) : Key(captions[j]) # Key(captions[i])
                 THEN Append(F[i - 1], captions[i])
                 ELSE F[i - 1]
    IN  F[Len(captions)]

Verbatim(caption) == caption

Normalised(caption) == strip(lower(caption))

\* C35 as stated: once the description is made, with the exact duplicates
\* of the frame captions dropped (first occurrences kept), one remaining
\* caption X gives "Video showing X" and two remaining captions X, Y give
\* "Video showing X, then Y".
C35_ExactDuplicatesCollapsed ==
    LET rest == FirstOccurrences(video.frame_captions, Verbatim)
    IN  video.description # <<>>
        => /\ Len(rest) = 1 => video.description = <<"Video showing ", rest[1]>>
           /\ Len(rest) = 2
              => video.description =
                     <<"Video showing ", rest[1], ", then ", rest[2]>>

\* C35 amended: once the description is made: captions are duplicates when
\* they are equal after lower-casing and trimming; with those dropped
\* (first occurrences kept), one remaining caption X gives "Video showing "
\* and X in lower case, two remaining captions X, Y give "Video showing ",
\* X in lower case, ", then " and Y in lower case.
C35_DuplicatesCollapsedIgnoringCase ==
    LET rest == FirstOccurrences(video.frame_captions, Normalised)
    IN  video.description # <<>>
        => /\ Len(rest) = 1
              => video.description = <<"Video showing ", lower(rest[1])>>
           /\ Len(rest) = 2
              => video.description =
                     <<"Video showing ", lower(rest[1]), ", then ", lower(rest[2])>>

\* C35 witness: three frames, the second captioned like the first but with
\* a capital first letter, gave the two-caption narrative
C35_Witness ==
    LET running == [text |-> "a dog running", cased |-> FALSE, padded |-> FALSE]
        jumping == [text |-> "a dog jumping", cased |-> FALSE, padded |-> FALSE]
    IN  /\ video.frame_captions = <<running, [running EXCEPT !.cased = TRUE], jumping>>
        /\ video.description = <<"Video showing ", running, ", then ", jumping>>

\* C36: in every reachable state 0 <= files_processed <= files_total.
C36_ProcessedWithinTotal ==
    /\ 0 <= files_processed
    /\ files_processed <= files_total

\* C37: in the step in which a run begins (its coroutine gets past the
\* lock) no Pause has been accepted during that run, so the run is not left
\* waiting at the pause gate and a status query does not answer "paused".
C37_FreshRunNotPaused ==
    [][RunStarts
       => /\ \A t \in Tasks : pc[t] # "gate" => pc'[t] # "gate"
          /\ StatusSeen' # "paused"]_vars

\* C38: a status query leaves status, the pause flag and gate,
\* stop_requested and the counters as they were, and with them the answers
\* that Pause, Resume and Stop would get.
C38_StatusQueryReadOnly ==
    [][GetStatus
       => /\ UNCHANGED <<status, is_paused, pause_event, stop_requested,
                         files_processed, files_total, errors>>
          /\ PauseAccepted' = PauseAccepted
          /\ ResumeAccepted' = ResumeAccepted
          /\ StopAccepted' = StopAccepted]_vars

\* C39: a pass whose inventory write failed (it had files to upsert and
\* store_files did not write them) leaves the persisted cursor as it found
\* it, so that the remote store still has the same entries for it.
C39_CursorOnlyAfterWrite ==
    [][(/\ SyncPass
        /\ ~sync'.raised
        /\ sync'.changed # <<>>
        /\ ~sync'.stored)
       => (cursor_file' = cursor_file /\ delta' = delta)]_vars

\* C40: a start request that had been accepted and had not begun its run
\* when Stop was accepted starts no batch, as long as no start request has
\* been accepted after that Stop.
C40_PendingStartDoesNotRunAfterStop ==
    [][\A t \in Tasks : BatchStarts(t) => t \notin before_stop]_vars

====
